---- MODULE Spec2Model ----
(***************************************************************************)
(* A model of rssbook (src/rssbook/core.py): the create_epub pipeline      *)
(* (feed -> capped items -> one chapter per item, images localized         *)
(* through the downloaded_images cache -> cover -> spine -> write_epub)    *)
(* and, as a second specification, HTMLToXHTMLConverter.convert on token   *)
(* sequences.                                                              *)
(*                                                                         *)
(* Exceptions are modelled by an `exc` field of an operator's result: a    *)
(* try/except of the source is an operator that inspects that field.       *)
(* Every network call and every collaborator call takes its outcome as an  *)
(* input the actions choose with \E.                                       *)
(***************************************************************************)
EXTENDS Integers, Sequences, FiniteSets, TLC

VARIABLES
    pc,                 \* position in create_epub: start, items, save, done, aborted
    feed_entries,       \* what the feed collaborator returns for feed_data.entries
    item_limit,         \* create_epub's item_limit argument
    items,              \* create_epub: items (the capped list)
    chapters,           \* create_epub: chapters
    downloaded_images,  \* EPUBCreator.downloaded_images: resolved URL -> (filename, data)
    book_items,         \* EPUBCreator.book.items, in add_item order
    spine,              \* EPUBCreator.book.spine
    toc,                \* EPUBCreator.book.toc (the chapters of the one section)
    cover,              \* the cover page save() built, NoCover before
    fetches,            \* instrumentation: requests.get calls per resolved image URL
    last_localize,      \* instrumentation: the latest _process_images call
    icon_outcome,       \* instrumentation: what the icon lookup answered
    output,             \* the output file: none, partial, complete
    writes,             \* number of epub.write_epub calls
    abort_at,           \* where the run aborted: none, feed, chapter, cover, write
    html_in,            \* converter specification: the input fragment
    html_once,          \* convert(html_in)
    html_twice,         \* convert(convert(html_in))
    cpc                 \* converter specification: in, once, twice

pipeline_vars == <<pc, feed_entries, item_limit, items, chapters, downloaded_images,
                   book_items, spine, toc, cover, fetches, last_localize,
                   icon_outcome, output, writes, abort_at>>
convert_vars == <<html_in, html_once, html_twice, cpc>>
vars == <<pipeline_vars, convert_vars>>

(***************************************************************************)
(* Bounds                                                                  *)
(***************************************************************************)
MaxEntries == 3
MaxLimit == 2

Min(a, b) == IF a < b THEN a ELSE b

SeqsUpTo(S, n) == UNION {[1..k -> S] : k \in 0..n}

(***************************************************************************)
(* Values: URLs, image references, local names                             *)
(***************************************************************************)
HostA == "a.example"
HostB == "b.example"
Hosts == {HostA, HostB}
ImgPath == "/pic"

\* a resolved absolute URL
AbsURL(h, p) == [host |-> h, path |-> p]
ImageURLs == {AbsURL(h, ImgPath) : h \in Hosts}

\* the value of an src attribute
EmptySrc == [kind |-> "empty"]
RelSrc(p) == [kind |-> "rel", path |-> p]
AbsSrc(h, p) == [kind |-> "abs", host |-> h, path |-> p]

None == [kind |-> "none"]

\* urllib.parse.urljoin on the two shapes of reference the model draws
urljoin(base, src) ==
    IF src.kind = "abs" THEN AbsURL(src.host, src.path)
    ELSE AbsURL(base.host, src.path)

\* python-slugify on the titles the model draws
slugify(t) ==
    CASE t = "Hello World" -> "hello-world"
      [] t = "hello, world!" -> "hello-world"
      [] t = "News" -> "news"
      [] t = "My Feed" -> "my-feed"

FeedMeta == [title |-> "My Feed",
             link |-> AbsURL(HostA, "/"),
             description |-> "A feed"]

\* the feed entries the feed collaborator may return
Entries == {[title |-> "Hello World", link |-> AbsURL(HostA, "/post1")],
            [title |-> "hello, world!", link |-> AbsURL(HostB, "/post2")],
            [title |-> "News", link |-> AbsURL(HostA, "/post3")]}

Graphic(s) == [tag |-> "graphic", src |-> s]

\* what trafilatura.extract may return: the image elements of the article
Html(imgs) == [kind |-> "html", imgs |-> imgs]
Extractions == {Html(<<Graphic(RelSrc(ImgPath)), Graphic(AbsSrc(HostA, ImgPath))>>),
                Html(<<Graphic(EmptySrc), Graphic(AbsSrc(HostB, ImgPath))>>)}
\* fetch_url, extract or convert raising inside create_chapter
Raises == [kind |-> "raise"]

\* image bytes as imghdr.what sees them, or a failed request
FetchOutcomes == {"png", "unrecognized", "fail"}
IconOutcomes == {"png", "unrecognized", "timeout", "bad_status"}

(***************************************************************************)
(* RSSFeedParser.get_feed_items                                            *)
(***************************************************************************)
\* get_feed_items ignoring its limit
get_feed_items_nolimit(entries, limit) == entries

get_feed_items(entries, limit) ==
    IF limit # 0 THEN SubSeq(entries, 1, Min(limit, Len(entries))) ELSE entries

(***************************************************************************)
(* EPUBCreator._get_image_info                                             *)
(***************************************************************************)
get_image_info(data) ==
    CASE data = "png" -> [ext |-> ".png", mime |-> "image/png"]
      [] data = "gif" -> [ext |-> ".gif", mime |-> "image/gif"]
      [] data = "webp" -> [ext |-> ".webp", mime |-> "image/webp"]
      [] OTHER -> [ext |-> ".jpg", mime |-> "image/jpeg"]

LocalName(prefix, url, ext) ==
    [kind |-> "local", dir |-> "images/", prefix |-> prefix, hash |-> url, ext |-> ext]

(***************************************************************************)
(* EPUBCreator._download_image.  st is the creator's state                 *)
(* [downloaded_images, book_items, fetches]; o is what requests.get        *)
(* answers if it is called.                                                *)
(***************************************************************************)
\* lines 240-260: the request, the sniffing, the cache entry, the registration
fetch_and_register(img_url, st, o) ==
    LET st1 == [st EXCEPT !.fetches[img_url] = @ + 1] IN
    IF o = "fail"
    THEN [exc |-> TRUE, local |-> None, st |-> st1]
    ELSE LET info == get_image_info(o)
             filename == LocalName("i", img_url, info.ext)
             entry == [filename |-> filename, data |-> o]
             img == [uid |-> [prefix |-> "i", hash |-> img_url],
                     file_name |-> filename,
                     media_type |-> info.mime]
             cache == st1.downloaded_images
         IN [exc |-> FALSE,
             local |-> filename,
             st |-> [st1 EXCEPT
                       !.downloaded_images =
                           [u \in DOMAIN cache \cup {img_url} |->
                               IF u = img_url THEN entry ELSE cache[u]],
                       !.book_items = Append(@, img)]]

\* _download_image without the `if img_url not in self.downloaded_images` test
download_image_try_nocache(src, base, st, o) ==
    fetch_and_register(urljoin(base, src), st, o)

\* the body of the try block, lines 236-262
download_image_try(src, base, st, o) ==
    LET img_url == urljoin(base, src) IN
    IF img_url \in DOMAIN st.downloaded_images
    THEN [exc |-> FALSE, local |-> st.downloaded_images[img_url].filename, st |-> st]
    ELSE fetch_and_register(img_url, st, o)

\* _download_image without its except clause
download_image_unhandled(src, base, st, o) == download_image_try(src, base, st, o)

\* the whole method: lines 264-266 turn any exception into (None, None)
download_image(src, base, st, o) ==
    LET r == download_image_try(src, base, st, o) IN
    IF r.exc THEN [exc |-> FALSE, local |-> None, st |-> r.st] ELSE r

(***************************************************************************)
(* EPUBCreator._process_images.  outs[i] is the network's answer for the   *)
(* i-th image element; parses says whether etree.fromstring succeeds.      *)
(***************************************************************************)
RECURSIVE process_images_loop(_, _, _, _, _, _)
process_images_loop(imgs, base, st, outs, done, trace) ==
    IF imgs = << >>
    THEN [exc |-> FALSE, content |-> done, trace |-> trace, st |-> st]
    ELSE LET img == Head(imgs) IN
         IF img.src = EmptySrc
         THEN process_images_loop(Tail(imgs), base, st, Tail(outs),
                                  Append(done, img), Append(trace, "skipped"))
         ELSE LET before == urljoin(base, img.src) \in DOMAIN st.downloaded_images
                  r == download_image(img.src, base, st, Head(outs))
              IN IF r.exc
                 THEN [exc |-> TRUE, content |-> done, trace |-> trace, st |-> r.st]
                 ELSE process_images_loop(
                          Tail(imgs), base, r.st, Tail(outs),
                          Append(done, IF r.local # None
                                       THEN [img EXCEPT !.src = r.local] ELSE img),
                          Append(trace, IF before THEN "cached"
                                        ELSE IF r.local # None THEN "fetched"
                                        ELSE "failed"))

process_images(content, base, st, outs, parses) ==
    IF ~parses
    THEN [exc |-> FALSE, content |-> content, trace |-> << >>, st |-> st]
    ELSE LET r == process_images_loop(content, base, st, outs, << >>, << >>) IN
         IF r.exc
         THEN [exc |-> FALSE, content |-> content, trace |-> r.trace, st |-> r.st]
         ELSE r

(***************************************************************************)
(* EPUBCreator.create_chapter.  extraction is Raises (fetch_url, extract   *)
(* or convert raised), None (extract found nothing) or the extracted       *)
(* markup, given by its image elements.                                    *)
(***************************************************************************)
ReplaceGraphic(content) ==
    [i \in 1..Len(content) |->
        IF content[i].tag = "graphic" THEN [content[i] EXCEPT !.tag = "img"]
        ELSE content[i]]

chapter_file_name(item) == [slug |-> slugify(item.title), ext |-> ".xhtml"]

create_chapter(item, extraction, st, outs, parses) ==
    IF extraction = Raises
    THEN [exc |-> TRUE, st |-> st]
    ELSE LET body == IF extraction = None THEN "placeholder" ELSE "extracted"
             content == IF extraction = None THEN << >>
                        ELSE ReplaceGraphic(extraction.imgs)
             r == process_images(content, item.link, st, outs, parses)
         IN [exc |-> r.exc,
             st |-> r.st,
             localize |-> [base |-> item.link, given |-> content,
                           result |-> r.content, trace |-> r.trace,
                           parsed |-> parses, raised |-> r.exc],
             chapter |-> [title |-> item.title,
                          link |-> item.link,
                          file_name |-> chapter_file_name(item),
                          body |-> body,
                          imgs |-> r.content]]

(***************************************************************************)
(* EPUBCreator._create_cover_page.  o is what the icon lookup answers.     *)
(***************************************************************************)
FaviconURL(metadata) == [host |-> "www.google.com", path |-> "/s2/favicons",
                         domain |-> metadata.link.host]

TextCover(metadata) ==
    [file_name |-> [slug |-> "cover", ext |-> ".xhtml"],
     img |-> None, title |-> metadata.title, description |-> metadata.description]

create_cover_page_try(metadata, o, items_) ==
    IF o \in {"timeout", "bad_status"}
    THEN [exc |-> TRUE, book_items |-> items_]
    ELSE LET info == get_image_info(o)
             icon_filename == LocalName("cover_icon", FaviconURL(metadata), info.ext)
             icon_item == [uid |-> [prefix |-> "cover_icon", hash |-> FaviconURL(metadata)],
                           file_name |-> icon_filename,
                           media_type |-> info.mime]
         IN [exc |-> FALSE,
             book_items |-> Append(items_, icon_item),
             cover |-> [TextCover(metadata) EXCEPT !.img = icon_filename]]

\* _create_cover_page without its except clause
create_cover_page_unhandled(metadata, o, items_) ==
    create_cover_page_try(metadata, o, items_)

create_cover_page(metadata, o, items_) ==
    LET r == create_cover_page_try(metadata, o, items_) IN
    IF r.exc
    THEN [exc |-> FALSE, book_items |-> r.book_items, cover |-> TextCover(metadata)]
    ELSE r

(***************************************************************************)
(* HTMLToXHTMLConverter.convert.  A markup string is a sequence of tokens  *)
(* [k, tag, attrs, sp]: k is doctype, open (<tag attrs>), close (</tag>),  *)
(* empty (<tag attrs/>, with sp blanks before the slash) or text; attrs is *)
(* the sequence of attributes as written, duplicates included.             *)
(***************************************************************************)
MaxTokens == 4

Attr(n, v) == [name |-> n, value |-> v]
Tok(k, tag, attrs, sp) == [k |-> k, tag |-> tag, attrs |-> attrs, sp |-> sp]
Open(tag, attrs) == Tok("open", tag, attrs, 0)
Close(tag) == Tok("close", tag, << >>, 0)
Empty(tag, attrs, sp) == Tok("empty", tag, attrs, sp)
Text == Tok("text", "#text", << >>, 0)
Doctype(id) == Tok("doctype", id, << >>, 0)

VoidTags == {"br", "img"}
html5_tags == <<"article", "section", "nav", "aside", "header", "footer">>
xhtml11_doctype == Doctype("-//W3C//DTD XHTML 1.1//EN")

\* the HTML parser keeps the first of several attributes of one name
RECURSIVE KeepFirst(_, _)
KeepFirst(attrs, seen) ==
    IF attrs = << >> THEN << >>
    ELSE IF Head(attrs).name \in seen THEN KeepFirst(Tail(attrs), seen)
    ELSE <<Head(attrs)>> \o KeepFirst(Tail(attrs), seen \cup {Head(attrs).name})

\* etree.HTMLParser on well-nested input: the element tree, written as the
\* sequence of its start tags, end tags and text nodes
RECURSIVE ParseTokens(_)
ParseTokens(toks) ==
    IF toks = << >> THEN << >>
    ELSE LET t == Head(toks)
             el == Open(t.tag, KeepFirst(t.attrs, {}))
             here == CASE t.k = "doctype" -> << >>
                       [] t.k = "empty" -> <<el, Close(t.tag)>>
                       [] t.k = "open" /\ t.tag \in VoidTags -> <<el, Close(t.tag)>>
                       [] t.k = "open" -> <<el>>
                       [] OTHER -> <<t>>
         IN here \o ParseTokens(Tail(toks))

HTMLParse(toks) ==
    LET tree == ParseTokens(toks) IN
    IF tree # << >> /\ tree[1].tag = "html" THEN tree
    ELSE <<Open("html", << >>), Open("body", << >>)>> \o tree
         \o <<Close("body"), Close("html")>>

\* etree.tostring(method='xml', doctype=...): an element without content is
\* written <tag/>
RECURSIVE SerializeTree(_)
SerializeTree(tree) ==
    IF tree = << >> THEN << >>
    ELSE IF Len(tree) >= 2 /\ tree[1].k = "open" /\ tree[2].k = "close"
    THEN <<Empty(tree[1].tag, tree[1].attrs, 0)>> \o SerializeTree(SubSeq(tree, 3, Len(tree)))
    ELSE <<Head(tree)>> \o SerializeTree(Tail(tree))

tostring(tree) == <<xhtml11_doctype>> \o SerializeTree(tree)

\* re.sub(r'<([^>]+)/>', r'<\1 />', ...)
SelfClosingSub(toks) ==
    [i \in 1..Len(toks) |->
        IF toks[i].k = "empty" THEN [toks[i] EXCEPT !.sp = @ + 1] ELSE toks[i]]

\* re.sub(f'<{tag}([^>]*)>', f'<div class="{tag}"\\1>', ...) and
\* re.sub(f'</{tag}>', '</div>', ...)
TagSub(toks, tag) ==
    [i \in 1..Len(toks) |->
        IF toks[i].tag # tag THEN toks[i]
        ELSE IF toks[i].k \in {"open", "empty"}
        THEN [toks[i] EXCEPT !.tag = "div", !.attrs = <<Attr("class", tag)>> \o @]
        ELSE IF toks[i].k = "close" THEN [toks[i] EXCEPT !.tag = "div"]
        ELSE toks[i]]

RECURSIVE TagSubs(_, _)
TagSubs(toks, tags) ==
    IF tags = << >> THEN toks ELSE TagSubs(TagSub(toks, Head(tags)), Tail(tags))

convert(html_string) ==
    TagSubs(SelfClosingSub(tostring(HTMLParse(html_string))), html5_tags)

\* the fragments the converter is given: well-nested, no text outside an element
ConvertAlphabet == {Open("article", << >>),
                    Open("article", <<Attr("class", "lead")>>),
                    Open("article", <<Attr("id", "a1")>>),
                    Close("article"),
                    Open("div", << >>),
                    Close("div"),
                    Open("br", << >>),
                    Text}

RECURSIVE WellNested(_, _)
WellNested(toks, stack) ==
    IF toks = << >> THEN stack = << >>
    ELSE LET t == Head(toks) IN
         CASE t.k = "open" /\ t.tag \in VoidTags -> WellNested(Tail(toks), stack)
           [] t.k = "open" -> WellNested(Tail(toks), <<t.tag>> \o stack)
           [] t.k = "close" -> /\ stack # << >>
                               /\ Head(stack) = t.tag
                               /\ WellNested(Tail(toks), Tail(stack))
           [] OTHER -> stack # << >> /\ WellNested(Tail(toks), stack)

InputFragments ==
    {f \in SeqsUpTo(ConvertAlphabet, MaxTokens) : f # << >> /\ WellNested(f, << >>)}

(***************************************************************************)
(* The pipeline: create_epub                                               *)
(***************************************************************************)
NoCover == [kind |-> "nocover"]
NoLocalize == [kind |-> "nolocalize"]
Ncx == [file_name |-> [slug |-> "toc", ext |-> ".ncx"]]

Feeds == SeqsUpTo(Entries, MaxEntries)
Limits == 1..MaxLimit

ConvertIdle ==
    /\ html_in = << >>
    /\ html_once = << >>
    /\ html_twice = << >>
    /\ cpc = "idle"

Init ==
    /\ pc = "start"
    /\ feed_entries \in Feeds
    /\ item_limit \in Limits
    /\ items = << >>
    /\ chapters = << >>
    /\ downloaded_images = << >>
    /\ book_items = << >>
    /\ spine = << >>
    /\ toc = << >>
    /\ cover = NoCover
    /\ fetches = [u \in ImageURLs |-> 0]
    /\ last_localize = NoLocalize
    /\ icon_outcome = "none"
    /\ output = "none"
    /\ writes = 0
    /\ abort_at = "none"
    /\ ConvertIdle

\* create_epub, lines 373-384: the feed is read and the creator constructed
ParseFeed ==
    /\ pc = "start"
    /\ items' = get_feed_items(feed_entries, item_limit)
    /\ pc' = "items"
    /\ UNCHANGED <<feed_entries, item_limit, chapters, downloaded_images, book_items,
                   spine, toc, cover, fetches, last_localize, icon_outcome, output,
                   writes, abort_at, convert_vars>>

\* create_epub, lines 373-375 raise and line 400 re-raises
ParseFeedFails ==
    /\ pc = "start"
    /\ pc' = "aborted"
    /\ abort_at' = "feed"
    /\ UNCHANGED <<feed_entries, item_limit, items, chapters, downloaded_images,
                   book_items, spine, toc, cover, fetches, last_localize, icon_outcome,
                   output, writes, convert_vars>>

\* create_epub, lines 387-390: one iteration of the loop over items
CreateChapter ==
    /\ pc = "items"
    /\ Len(chapters) < Len(items)
    /\ \E extraction \in {Raises, None} \cup Extractions, parses \in BOOLEAN :
       \E outs \in [1..(IF extraction.kind = "html" THEN Len(extraction.imgs) ELSE 0)
                     -> FetchOutcomes] :
          LET item == items[Len(chapters) + 1]
              st == [downloaded_images |-> downloaded_images,
                     book_items |-> book_items,
                     fetches |-> fetches]
              r == create_chapter(item, extraction, st, outs, parses)
          IN /\ downloaded_images' = r.st.downloaded_images
             /\ book_items' = r.st.book_items
             /\ fetches' = r.st.fetches
             /\ IF r.exc
                THEN /\ pc' = "aborted"
                     /\ abort_at' = "chapter"
                     /\ UNCHANGED <<chapters, last_localize>>
                ELSE /\ chapters' = Append(chapters, r.chapter)
                     /\ last_localize' = r.localize
                     /\ UNCHANGED <<pc, abort_at>>
    /\ UNCHANGED <<feed_entries, item_limit, items, spine, toc, cover, icon_outcome,
                   output, writes, convert_vars>>

\* EPUBCreator.save: the cover, the registrations, toc and spine, write_epub
save ==
    \E o \in IconOutcomes, w \in {"ok", "error"} :
       LET c == create_cover_page(FeedMeta, o, book_items) IN
       /\ icon_outcome' = o
       /\ IF c.exc
          THEN /\ pc' = "aborted"
               /\ abort_at' = "cover"
               /\ UNCHANGED <<cover, book_items, toc, spine, writes, output>>
          ELSE /\ cover' = c.cover
               /\ book_items' = Append(c.book_items, c.cover) \o chapters \o <<Ncx>>
               /\ toc' = chapters
               /\ spine' = <<c.cover>> \o chapters
               /\ writes' = writes + 1
               /\ IF w = "ok"
                  THEN /\ output' = "complete"
                       /\ pc' = "done"
                       /\ UNCHANGED abort_at
                  ELSE /\ output' = "partial"
                       /\ pc' = "aborted"
                       /\ abort_at' = "write"

\* a save() call indented into the loop over items: it runs after any iteration
SaveInsideLoop ==
    /\ pc = "items"
    /\ save
    /\ UNCHANGED <<feed_entries, item_limit, items, chapters, downloaded_images,
                   fetches, last_localize, convert_vars>>

\* create_epub, lines 392-396: after the loop over items, save and return
Save ==
    /\ pc = "items"
    /\ Len(chapters) = Len(items)
    /\ save
    /\ UNCHANGED <<feed_entries, item_limit, items, chapters, downloaded_images,
                   fetches, last_localize, convert_vars>>

Next ==
    \/ ParseFeed
    \/ ParseFeedFails
    \/ CreateChapter
    \/ Save

Spec == Init /\ [][Next]_vars

(***************************************************************************)
(* The converter alone: convert applied once and twice to a fragment       *)
(***************************************************************************)
PipelineIdle ==
    /\ pc = "idle"
    /\ feed_entries = << >>
    /\ item_limit = 0
    /\ items = << >>
    /\ chapters = << >>
    /\ downloaded_images = << >>
    /\ book_items = << >>
    /\ spine = << >>
    /\ toc = << >>
    /\ cover = NoCover
    /\ fetches = [u \in ImageURLs |-> 0]
    /\ last_localize = NoLocalize
    /\ icon_outcome = "none"
    /\ output = "none"
    /\ writes = 0
    /\ abort_at = "none"

InitConvert ==
    /\ PipelineIdle
    /\ html_in \in InputFragments
    /\ html_once = << >>
    /\ html_twice = << >>
    /\ cpc = "in"

ConvertOnce ==
    /\ cpc = "in"
    /\ html_once' = convert(html_in)
    /\ cpc' = "once"
    /\ UNCHANGED <<html_in, html_twice, pipeline_vars>>

ConvertTwice ==
    /\ cpc = "once"
    /\ html_twice' = convert(html_once)
    /\ cpc' = "twice"
    /\ UNCHANGED <<html_in, html_once, pipeline_vars>>

NextConvert ==
    \/ ConvertOnce
    \/ ConvertTwice

SpecConvert == InitConvert /\ [][NextConvert]_vars

(***************************************************************************)
(* Helpers of the properties                                               *)
(***************************************************************************)
\* the registered items that are binary assets (EpubItem with a uid)
AssetItems == SelectSeq(book_items, LAMBDA it : "uid" \in DOMAIN it)
RegisteredNames == {book_items[i].file_name : i \in 1..Len(book_items)}
ArticleUid(u) == [prefix |-> "i", hash |-> u]
ItemsOfUid(uid) == {i \in 1..Len(AssetItems) : AssetItems[i].uid = uid}
\* every image element of every chapter built so far
ChapterImgs == UNION {{chapters[c].imgs[i] : i \in 1..Len(chapters[c].imgs)} :
                        c \in 1..Len(chapters)}
Localized(img) == img.src.kind = "local"
Capped == Min(Len(feed_entries), item_limit)

(***************************************************************************)
(* C1: every resolved image URL is requested from the network at most once *)
(* in a build, whether the request succeeded or failed.                    *)
(***************************************************************************)
C1_AtMostOneFetchPerURL == \A u \in ImageURLs : fetches[u] <= 1

(***************************************************************************)
(* C2: _process_images never raises; a reference whose fetch failed keeps  *)
(* its src, every other reference of the fragment is still processed (a    *)
(* fetched or cached one is rewritten to its local name), and a fragment   *)
(* with the same elements is returned.                                     *)
(***************************************************************************)
C2_LocalizeNeverRaises ==
    last_localize # NoLocalize =>
        LET L == last_localize IN
        /\ ~L.raised
        /\ Len(L.result) = Len(L.given)
        /\ L.parsed => Len(L.trace) = Len(L.given)
        /\ \A i \in 1..Len(L.trace) :
              /\ L.trace[i] \in {"failed", "skipped"} => L.result[i] = L.given[i]
              /\ L.trace[i] \in {"fetched", "cached"} =>
                    /\ Localized(L.result[i])
                    /\ L.result[i].src.hash = urljoin(L.base, L.given[i].src)
                    /\ L.result[i].src \in RegisteredNames

C2_Witness ==
    /\ last_localize # NoLocalize
    /\ \E i, j \in 1..Len(last_localize.trace) :
          /\ i < j
          /\ last_localize.trace[i] = "failed"
          /\ last_localize.trace[j] = "fetched"

(***************************************************************************)
(* C3: the written document's reading order is the cover followed by       *)
(* exactly min(n, L) chapters, the i-th built from the i-th feed entry.    *)
(***************************************************************************)
C3_SpineIsCoverThenCappedFeed ==
    writes > 0 =>
        /\ Len(spine) = 1 + Capped
        /\ spine[1] = cover
        /\ \A i \in 1..Capped :
              /\ spine[i + 1].title = feed_entries[i].title
              /\ spine[i + 1].link = feed_entries[i].link

C3_Witness ==
    /\ pc = "done"
    /\ Len(feed_entries) = 3
    /\ item_limit = 2
    /\ Len(spine) = 3
    /\ feed_entries[1] # feed_entries[2]
    /\ spine[2].title = feed_entries[1].title
    /\ spine[3].title = feed_entries[2].title

(***************************************************************************)
(* C4: the chapter file names of a build are pairwise distinct.            *)
(***************************************************************************)
C4_ChapterFileNamesDistinct ==
    \A i, j \in 1..Len(chapters) :
        i # j => chapters[i].file_name # chapters[j].file_name

(***************************************************************************)
(* C5: once the feed was read, a failure inside create_chapter for one     *)
(* item neither aborts the run nor keeps the other capped items from       *)
(* becoming chapters.                                                      *)
(***************************************************************************)
C5_ItemFailureDoesNotAbort ==
    /\ abort_at # "chapter"
    /\ (pc \in {"done", "aborted"} /\ abort_at # "feed") => Len(chapters) = Len(items)

CoverIconName(ext) == LocalName("cover_icon", FaviconURL(FeedMeta), ext)
CoverIconItems == {i \in 1..Len(AssetItems) : AssetItems[i].uid.prefix = "cover_icon"}

C7_EveryImageReferencePackaged ==
    pc = "done" =>
        /\ \A img \in ChapterImgs : img.src # EmptySrc => img.src \in RegisteredNames
        /\ cover.img # None => cover.img \in RegisteredNames

(***************************************************************************)
(* C8: at most one asset per resolved URL: one cache entry and exactly one *)
(* registered item for each cached URL, no article asset outside the       *)
(* cache, and references localized from the same URL carry the same name,  *)
(* the one the cache holds.                                                *)
(***************************************************************************)
C8_OneAssetPerURL ==
    /\ \A u \in DOMAIN downloaded_images :
          /\ Cardinality(ItemsOfUid(ArticleUid(u))) = 1
          /\ \A i \in ItemsOfUid(ArticleUid(u)) :
                AssetItems[i].file_name = downloaded_images[u].filename
    /\ \A i \in 1..Len(AssetItems) :
          AssetItems[i].uid.prefix = "i" =>
              AssetItems[i].uid.hash \in DOMAIN downloaded_images
    /\ \A a, b \in ChapterImgs :
          (Localized(a) /\ Localized(b) /\ a.src.hash = b.src.hash) => a.src = b.src
    /\ \A a \in ChapterImgs :
          Localized(a) =>
              /\ a.src.hash \in DOMAIN downloaded_images
              /\ a.src = downloaded_images[a.src.hash].filename

C8_Witness ==
    /\ last_localize # NoLocalize
    /\ Len(last_localize.given) = 2
    /\ last_localize.given[1].src # last_localize.given[2].src
    /\ Localized(last_localize.result[1])
    /\ last_localize.result[1].src = last_localize.result[2].src
    /\ Cardinality(ItemsOfUid(ArticleUid(last_localize.result[1].src.hash))) = 1

(***************************************************************************)
(* C9: the output is written at most once, only after every capped item    *)
(* became a chapter and the cover was built; a run that aborts before      *)
(* serialization leaves no output file.                                    *)
(***************************************************************************)
C9_WrittenOnceAfterAllChapters ==
    /\ writes <= 1
    /\ output # "none" => writes = 1
    /\ writes = 1 =>
          /\ Len(chapters) = Capped
          /\ items = SubSeq(feed_entries, 1, Capped)
          /\ cover # NoCover
          /\ pc \in {"done", "aborted"}
    /\ abort_at \in {"feed", "chapter", "cover"} => (writes = 0 /\ output = "none")
    /\ pc = "done" => output = "complete"

C9_Witness ==
    /\ pc = "done"
    /\ writes = 1
    /\ Len(chapters) = 2

C9_WitnessAbort ==
    /\ pc = "aborted"
    /\ abort_at = "chapter"
    /\ Len(chapters) = 1
    /\ output = "none"

(***************************************************************************)
(* C10: convert is idempotent: convert(convert(x)) = convert(x).           *)
(***************************************************************************)
C10_ConvertIdempotent == cpc = "twice" => html_twice = html_once

====
